---- MODULE Spec2Model ----
(***************************************************************************)
(* Model of src/assisted_installer_controller/assisted_installer_controller.go *)
(* (package assisted_installer_controller): the four loops of the          *)
(* controller, each translated statement by statement, one action per      *)
(* loop iteration step that ends in a call to the inventory client (c.ic)  *)
(* or the cluster client (c.kc).  The clients are external: a call's       *)
(* outcome (error or not) is an input chosen with \E.                      *)
(***************************************************************************)
EXTENDS Integers, Sequences, FiniteSets, TLC

(***************************************************************************)
(* Bounds of the model.                                                    *)
(***************************************************************************)
\* inventory hosts are named 1..NumHosts
NumHosts == 2
\* cluster nodes are named 1..NumNodes (a node matches the host of the same name)
NumNodes == 3
\* machine-config-server pods are named 1..NumPods
NumPods == 2
\* certificate signing requests are named 1..NumCsrs
NumCsrs == 2
\* bare-metal hosts are named 1..NumBmhs
NumBmhs == 2
\* metav1.Now() is a time in 1..MaxTime (0 is the zero time)
MaxTime == 2
\* at most NumConsolePods console pods exist
NumConsolePods == 2
\* PostInstallConfigs is followed through at most MaxRetries calls that fail
\* or leave its step incomplete
MaxRetries == 2

VARIABLES
    \* ---- inventory and cluster, as seen by WaitAndUpdateNodesStatus
    hostStatus,   \* inventory: host name -> status
    nodes,        \* cluster: names of the nodes that have joined
    \* ---- WaitAndUpdateNodesStatus
    nrPc,         \* position in the loop
    nrInv,        \* the inventory's host statuses when GetHosts of this iteration ran
    nrGetErr,     \* err of the GetHosts call of this iteration
    nrHosts,      \* assistedInstallerNodesMap of this iteration (its keys)
    nrListErr,    \* whether ListNodes of this iteration failed
    nrListed,     \* nodes.Items of this iteration (node names)
    nrIdx,        \* index of the next item of nodes.Items
    nrCalls,      \* UpdateHostInstallProgress calls issued in this iteration
    nrHelper,     \* calls of updateConfiguringStatusIfNeeded in this iteration
    nrIter,       \* whether an iteration has completed ("none", "ended", "returned")
    nrFailed,     \* the hosts for which an UpdateHostInstallProgress call has failed so far
    \* ---- cluster, as seen by ApproveCsrs
    csrs,         \* cluster: CSR name -> its Status.Conditions (types), or Absent
    \* ---- ApproveCsrs
    csrPc,        \* position in the loop
    csrDone,      \* the done channel: "none", "sent" (a receive would succeed), "received"
    csrTick,      \* whether ticker.C holds a tick
    csrSnapshot,  \* csrs.Items of the pass: [name, conds]
    csrIdx,       \* index of the next item of csrs.Items
    csrCalls,     \* ApproveCsr calls of the pass
    csrWg,        \* number of wg.Done() calls made by ApproveCsrs
    \* ---- cluster, as seen by UpdateBMHs
    bmhs,         \* cluster: BMH name -> [exists, ann (the status annotation), status]
    \* ---- UpdateBMHs
    bmhPc,        \* position in the loop
    bmhExists,    \* IsMetalProvisioningExists of this tick: "none", "err", "true", "false"
    bmhListRes,   \* ListBMHs of this tick: "none", "err", "ok"
    bmhSnapshot,  \* bmhList.Items of this tick: [name, ann]
    bmhIdx,       \* index of the next item of bmhList.Items
    bmhAllUpdated,\* allUpdated of updateBMHStatus
    bmhCur,       \* the local bmh between UpdateBMHStatus and UpdateBMH
    bmhCalls,     \* UpdateBMHStatus and UpdateBMH calls of this tick
    bmhSync,      \* per BMH: 0, 1 (both calls succeeded in this tick), 2 (in an earlier tick)
    bmhPayload,   \* per BMH: the status decoded in the pass that synchronized it
    bmhWg,        \* number of wg.Done() calls made by UpdateBMHs
    \* ---- inventory and cluster, as seen by PostInstallConfigs
    clusterStatus,\* inventory: the cluster's status
    cmData,       \* cluster: ca-bundle.crt of the config map default-ingress-cert
    consolePods,  \* cluster: the phases of the console pods
    etcdPatched,  \* cluster: whether the temporary etcd patch is in place
    invCa,        \* inventory: the ingress CA uploaded for the cluster
    invCompleted, \* inventory: the completion reports it accepted
    \* ---- PostInstallConfigs
    fPc,          \* position in the sequence
    fCa,          \* caConfigMap.Data["ca-bundle.crt"] of the last GetConfigMap
    fLog,         \* the sleeps and client calls made so far, in order
    fRetries,     \* number of calls so far that did not complete their step
    fWg           \* number of wg.Done() calls made by PostInstallConfigs

csrVars == <<csrs, csrPc, csrDone, csrTick, csrSnapshot, csrIdx, csrCalls, csrWg>>

bmhVars == <<bmhs, bmhPc, bmhExists, bmhListRes, bmhSnapshot, bmhIdx, bmhAllUpdated,
             bmhCur, bmhCalls, bmhSync, bmhPayload, bmhWg>>

finVars == <<clusterStatus, cmData, consolePods, etcdPatched, invCa, invCompleted,
             fPc, fCa, fLog, fRetries, fWg>>

nodeVars == <<hostStatus, nodes, nrPc, nrInv, nrGetErr, nrHosts, nrListErr, nrListed,
              nrIdx, nrCalls, nrHelper, nrIter, nrFailed>>

vars == <<nodeVars, csrVars, bmhVars, finVars>>

\* the variables of the other loops
notNodeVars == <<csrVars, bmhVars, finVars>>
notCsrVars == <<nodeVars, bmhVars, finVars>>
notBmhVars == <<nodeVars, csrVars, finVars>>
notFinVars == <<nodeVars, csrVars, bmhVars>>

(***************************************************************************)
(* Inventory and cluster data of the Node Reconciler.                      *)
(***************************************************************************)
Hosts == 1..NumHosts
NodeNames == 1..NumNodes
Pods == 1..NumPods

\* models.HostStatus* values the code names, and one status it does not exclude
HostStatusDisabled == "disabled"
HostStatusError == "error"
HostStatusInstalled == "installed"
HostStatusInstalling == "installing"
HostStatuses == {HostStatusInstalling, HostStatusDisabled, HostStatusError, HostStatusInstalled}
HostStageDone == "Done"

\* ignoreStatuses of WaitAndUpdateNodesStatus
ignoreStatuses == {HostStatusDisabled, HostStatusError, HostStatusInstalled}

\* host.Host.ID of the host named h: an identifier distinct from the name
HostID(h) == 100 + h

\* the hosts of the inventory whose status is not in skipped
PendingHosts(skipped) == {h \in Hosts : hostStatus[h] \notin skipped}

\* c.ic.GetHosts(ignoreStatuses): the map (its key set) beside err; with an
\* error the client returns a nil map
GetHosts(skipped, err) == IF err THEN {} ELSE PendingHosts(skipped)

\* the elements of the set S of numbers in increasing order
RECURSIVE SortedSeq(_)
SortedSeq(S) ==
    IF S = {} THEN <<>>
    ELSE LET m == CHOOSE x \in S : \A y \in S : x <= y
         IN <<m>> \o SortedSeq(S \ {m})

\* c.kc.ListNodes(): nodes.Items, the nodes in the API server's (name) order
ListNodes == SortedSeq(nodes)

\* a lookup whose ok is not tested: every node is taken to have a host
NodeHasHost_Unchecked(hostsMap, nodeName) == TRUE

\* host, ok := assistedInstallerNodesMap[node.Name]
NodeHasHost(hostsMap, nodeName) == nodeName \in hostsMap

\* the argument list of the c.ic.UpdateHostInstallProgress call of line 88
UpdateCall(h, ok) == [id |-> HostID(h), stage |-> HostStageDone, info |-> "", ok |-> ok]

\* getMCSLogs: podsErr is the error of GetPods, failAt the first pod whose
\* GetPodLogs fails (0: none).  The log of pod p is the one-element text <<p>>.
\* a loop that stops at the failing pod and keeps what it has read
RECURSIVE ConcatLogs_Partial(_, _)
ConcatLogs_Partial(p, failAt) ==
    IF p > NumPods \/ p = failAt THEN [ok |-> TRUE, logs |-> <<>>]
    ELSE LET rest == ConcatLogs_Partial(p + 1, failAt)
         IN [ok |-> TRUE, logs |-> <<p>> \o rest.logs]

\* lines 107-115: the logs of the pods p, p+1, ... concatenated; ok is false
\* when GetPodLogs of one of them fails
RECURSIVE ConcatLogs(_, _)
ConcatLogs(p, failAt) ==
    IF p > NumPods THEN [ok |-> TRUE, logs |-> <<>>]
    ELSE IF p = failAt THEN [ok |-> FALSE, logs |-> <<>>]
    ELSE LET rest == ConcatLogs(p + 1, failAt)
         IN IF rest.ok THEN [ok |-> TRUE, logs |-> <<p>> \o rest.logs] ELSE rest

\* lines 99-116: the pair (logs, err) getMCSLogs returns; err is always nil
getMCSLogs(podsErr, failAt) ==
    IF podsErr THEN [logs |-> <<>>, err |-> FALSE]
    ELSE IF ConcatLogs(1, failAt).ok
         THEN [logs |-> ConcatLogs(1, failAt).logs, err |-> FALSE]
         ELSE [logs |-> <<>>, err |-> FALSE]

\* an update error that ends the loop over the nodes
NextNodeIndex_BreakOnError(idx, len, ok) == IF ok THEN idx + 1 ELSE len + 1

\* lines 80-92: the index of the item handled after item idx of len items; an
\* UpdateHostInstallProgress error continues with the next item
NextNodeIndex(idx, len, ok) == idx + 1

\* a ListNodes error that ends the loop
AfterListNodes_ErrorReturns(err) == IF err THEN "done" ELSE "update"

\* lines 76-79: where the loop goes after ListNodes: an error continues with
\* the next iteration
AfterListNodes(err) == IF err THEN "sleep" ELSE "update"

\* the helper given only the hosts no update call was made for
HelperHosts_NotUpdated(hostsMap, calls) ==
    {h \in hostsMap : \A i \in 1..Len(calls) : calls[i].id # HostID(h)}

\* line 93: the map passed to updateConfiguringStatusIfNeeded
HelperHosts(hostsMap, calls) == hostsMap

NoHelper == <<>>

(***************************************************************************)
(* WaitAndUpdateNodesStatus                                                *)
(***************************************************************************)
NodeLoopInit ==
    /\ nrPc = "sleep"
    /\ nrInv = hostStatus
    /\ nrGetErr = FALSE
    /\ nrHosts = {}
    /\ nrListErr = FALSE
    /\ nrListed = <<>>
    /\ nrIdx = 1
    /\ nrCalls = <<>>
    /\ nrHelper = NoHelper
    /\ nrIter = "none"
    /\ nrFailed = {}

NodeInit ==
    /\ hostStatus \in [Hosts -> HostStatuses]
    /\ nodes \in SUBSET NodeNames
    /\ NodeLoopInit

\* where the loop goes after GetHosts: line 72, len(map) == 0 breaks
AfterGetHosts(hostsMap, err) == IF Cardinality(hostsMap) = 0 THEN "done" ELSE "list"

\* lines 67-74: sleep, GetHosts, log an error, break on an empty map
NR_GetHosts ==
    /\ nrPc = "sleep"
    /\ \E err \in BOOLEAN :
          LET m == GetHosts(ignoreStatuses, err)
          IN /\ nrInv' = hostStatus
             /\ nrGetErr' = err
             /\ nrHosts' = m
             /\ nrPc' = AfterGetHosts(m, err)
             /\ nrIter' = IF AfterGetHosts(m, err) = "done" THEN "returned" ELSE "running"
    /\ nrListErr' = FALSE
    /\ nrListed' = <<>>
    /\ nrIdx' = 1
    /\ nrCalls' = <<>>
    /\ nrHelper' = NoHelper
    /\ UNCHANGED <<hostStatus, nodes, nrFailed>>
    /\ UNCHANGED notNodeVars

\* lines 76-79: ListNodes; an error continues with the next iteration
NR_ListNodes ==
    /\ nrPc = "list"
    /\ \E err \in BOOLEAN :
          /\ nrPc' = AfterListNodes(err)
          /\ IF err
             THEN /\ nrListErr' = TRUE
                  /\ nrIter' = "ended"
                  /\ UNCHANGED <<nrListed>>
             ELSE /\ nrListErr' = FALSE
                  /\ nrListed' = ListNodes
                  /\ UNCHANGED <<nrIter>>
    /\ UNCHANGED <<hostStatus, nodes, nrInv, nrGetErr, nrHosts, nrIdx, nrCalls, nrHelper, nrFailed>>
    /\ UNCHANGED notNodeVars

\* lines 80-92: one item of nodes.Items
NR_UpdateNode ==
    /\ nrPc = "update"
    /\ nrIdx <= Len(nrListed)
    /\ LET n == nrListed[nrIdx]
       IN IF ~NodeHasHost(nrHosts, n)
          THEN /\ nrIdx' = nrIdx + 1
               /\ UNCHANGED <<hostStatus, nrCalls, nrFailed>>
          ELSE \E ok \in BOOLEAN :
                  /\ nrCalls' = Append(nrCalls, UpdateCall(n, ok))
                  /\ hostStatus' = IF ok THEN [hostStatus EXCEPT ![n] = HostStatusInstalled]
                                   ELSE hostStatus
                  /\ nrFailed' = IF ok THEN nrFailed ELSE nrFailed \cup {n}
                  /\ nrIdx' = NextNodeIndex(nrIdx, Len(nrListed), ok)
    /\ UNCHANGED <<nodes, nrPc, nrInv, nrGetErr, nrHosts, nrListErr, nrListed, nrHelper, nrIter>>
    /\ UNCHANGED notNodeVars

\* line 93 and lines 118-124: updateConfiguringStatusIfNeeded(assistedInstallerNodesMap);
\* nrHelper records the SetConfiguringStatusForHosts call of line 123 with its
\* hosts and logs arguments, and the outcomes of the pod calls that led to it
NR_Helper ==
    /\ nrPc = "update"
    /\ nrIdx > Len(nrListed)
    /\ \E podsErr \in BOOLEAN, failAt \in 0..NumPods :
          /\ podsErr => failAt = 0
          /\ LET r == getMCSLogs(podsErr, failAt)
             IN nrHelper' =
                   IF r.err THEN nrHelper
                   ELSE Append(nrHelper, [hosts |-> HelperHosts(nrHosts, nrCalls),
                                          logs |-> r.logs,
                                          podsErr |-> podsErr, failAt |-> failAt])
    /\ nrPc' = "sleep"
    /\ nrIter' = "ended"
    /\ UNCHANGED <<hostStatus, nodes, nrInv, nrGetErr, nrHosts, nrListErr, nrListed, nrIdx,
                   nrCalls, nrFailed>>
    /\ UNCHANGED notNodeVars

\* the cluster: a node joins
NodeJoins ==
    /\ \E n \in NodeNames \ nodes : nodes' = nodes \cup {n}
    /\ UNCHANGED <<hostStatus, nrPc, nrInv, nrGetErr, nrHosts, nrListErr, nrListed, nrIdx,
                   nrCalls, nrHelper, nrIter, nrFailed>>
    /\ UNCHANGED notNodeVars

\* the inventory: an installing host fails
HostFails ==
    /\ \E h \in Hosts :
          /\ hostStatus[h] = HostStatusInstalling
          /\ hostStatus' = [hostStatus EXCEPT ![h] = HostStatusError]
    /\ UNCHANGED <<nodes, nrPc, nrInv, nrGetErr, nrHosts, nrListErr, nrListed, nrIdx,
                   nrCalls, nrHelper, nrIter, nrFailed>>
    /\ UNCHANGED notNodeVars

NodeNext == NR_GetHosts \/ NR_ListNodes \/ NR_UpdateNode \/ NR_Helper \/ NodeJoins \/ HostFails

(***************************************************************************)
(* ApproveCsrs                                                             *)
(***************************************************************************)
Csrs == 1..NumCsrs
\* the value of a name under which the cluster holds no object
Absent == <<"absent">>
CertificateApproved == "Approved"
CertificateDenied == "Denied"

\* the Status.Conditions (their types) a CSR of the cluster starts with
CsrConditions == {<<>>, <<CertificateDenied>>, <<CertificateApproved>>,
                  <<CertificateDenied, CertificateApproved>>}

\* a test of the first condition only
isCsrApproved_FirstOnly(conds) ==
    IF conds = <<>> THEN FALSE
    ELSE Head(conds) = CertificateApproved

\* isCsrApproved: some condition of the CSR has type Approved
RECURSIVE isCsrApproved(_)
isCsrApproved(conds) ==
    IF conds = <<>> THEN FALSE
    ELSE IF Head(conds) = CertificateApproved THEN TRUE
    ELSE isCsrApproved(Tail(conds))

\* c.kc.ListCsrs(): csrs.Items, the CSRs that exist, in name order
ListCsrs == [i \in 1..Cardinality({c \in Csrs : csrs[c] # Absent}) |->
                LET name == SortedSeq({c \in Csrs : csrs[c] # Absent})[i]
                IN [name |-> name, conds |-> csrs[name]]]

\* c.kc.ApproveCsr(&csr) succeeding: the cluster's CSR gets an Approved condition
ApproveCsr(name) ==
    IF csrs[name] = Absent THEN csrs
    ELSE [csrs EXCEPT ![name] = Append(csrs[name], CertificateApproved)]

CsrLoopInit ==
    /\ csrPc = "select"
    /\ csrDone = "none"
    /\ csrTick = FALSE
    /\ csrSnapshot = <<>>
    /\ csrIdx = 1
    /\ csrCalls = <<>>
    /\ csrWg = 0

CsrInit ==
    /\ csrs \in [Csrs -> CsrConditions \cup {Absent}]
    /\ CsrLoopInit

\* the CSR Approver and its cluster, not running
CsrQuiet ==
    /\ csrs = [c \in Csrs |-> Absent]
    /\ CsrLoopInit

\* the ticker (line 129) delivers a tick; ticker.C holds at most one
CSR_TickerFires ==
    /\ csrPc # "returned"
    /\ ~csrTick
    /\ csrTick' = TRUE
    /\ UNCHANGED <<csrs, csrPc, csrDone, csrSnapshot, csrIdx, csrCalls, csrWg>>
    /\ UNCHANGED notCsrVars

\* the caller signals cancellation on the done channel
CSR_Cancel ==
    /\ csrDone = "none"
    /\ csrDone' = "sent"
    /\ UNCHANGED <<csrs, csrPc, csrTick, csrSnapshot, csrIdx, csrCalls, csrWg>>
    /\ UNCHANGED notCsrVars

\* lines 132-133 and the deferred wg.Done() of line 127
CSR_SelectDone ==
    /\ csrPc = "select"
    /\ csrDone = "sent"
    /\ csrDone' = "received"
    /\ csrPc' = "returned"
    /\ csrWg' = csrWg + 1
    /\ UNCHANGED <<csrs, csrTick, csrSnapshot, csrIdx, csrCalls>>
    /\ UNCHANGED notCsrVars

\* a ListCsrs error that ends the loop
AfterListCsrs_ErrorReturns(err, n) ==
    IF err THEN "returned" ELSE IF n = 0 THEN "select" ELSE "pass"

\* lines 135-139: where the loop goes after ListCsrs returned n items or an
\* error: an error continues with the select, a list is passed to approveCsrs
AfterListCsrs(err, n) ==
    IF err THEN "select" ELSE IF n = 0 THEN "select" ELSE "pass"

\* lines 134-139: a tick is received, ListCsrs; an error continues
CSR_SelectTick ==
    /\ csrPc = "select"
    /\ csrTick
    /\ csrTick' = FALSE
    /\ \E err \in BOOLEAN :
          /\ csrPc' = AfterListCsrs(err, Len(ListCsrs))
          /\ IF err
             THEN UNCHANGED <<csrSnapshot, csrIdx, csrCalls>>
             ELSE /\ csrSnapshot' = ListCsrs
                  /\ csrIdx' = 1
                  /\ csrCalls' = <<>>
    /\ UNCHANGED <<csrs, csrDone, csrWg>>
    /\ UNCHANGED notCsrVars

\* lines 145-152: one item of csrs.Items; the result of ApproveCsr is dropped
CSR_Approve ==
    /\ csrPc = "pass"
    /\ csrIdx <= Len(csrSnapshot)
    /\ LET csr == csrSnapshot[csrIdx]
       IN IF ~isCsrApproved(csr.conds)
          THEN \E ok \in BOOLEAN :
                  /\ csrCalls' = Append(csrCalls, [name |-> csr.name, ok |-> ok])
                  /\ csrs' = IF ok THEN ApproveCsr(csr.name) ELSE csrs
          ELSE UNCHANGED <<csrs, csrCalls>>
    /\ csrIdx' = csrIdx + 1
    /\ csrPc' = IF csrIdx + 1 > Len(csrSnapshot) THEN "select" ELSE "pass"
    /\ UNCHANGED <<csrDone, csrTick, csrSnapshot, csrWg>>
    /\ UNCHANGED notCsrVars

\* the cluster: a node's kubelet files a CSR
CsrCreated ==
    /\ \E c \in Csrs :
          /\ csrs[c] = Absent
          /\ csrs' = [csrs EXCEPT ![c] = <<>>]
    /\ UNCHANGED <<csrPc, csrDone, csrTick, csrSnapshot, csrIdx, csrCalls, csrWg>>
    /\ UNCHANGED notCsrVars

CsrNext == CSR_TickerFires \/ CSR_Cancel \/ CSR_SelectDone \/ CSR_SelectTick
           \/ CSR_Approve \/ CsrCreated

(***************************************************************************)
(* UpdateBMHs                                                              *)
(***************************************************************************)
Bmhs == 1..NumBmhs
Times == 1..MaxTime

\* a BareMetalHostStatus: the provisioning state and LastUpdated (0: zero/nil)
ZeroStatus == [state |-> "", lastUpdated |-> 0]

\* the annotations map without the key metal3v1alpha1.StatusAnnotation
NoAnnotation == <<"<absent>">>

\* values of the status annotation, as token texts: the empty string, a text
\* that is no JSON document, {}, {"state":"ready"} and
\* {"state":"ready","lastUpdated":"t1"}
AnnEmpty == <<>>
AnnGarbage == <<"}">>
AnnNoFields == <<"{", "}">>
AnnState == <<"{", "state", "ready", "}">>
AnnStateTime == <<"{", "state", "ready", "lastUpdated", "t1", "}">>
AnnotationTexts == {AnnEmpty, AnnGarbage, AnnNoFields, AnnState, AnnStateTime}

\* the time a JSON time text stands for
TimeOf(text) == IF text = "t1" THEN 1 ELSE 0

\* annotations[metal3v1alpha1.StatusAnnotation]: the zero value for a missing key
GetAnnotation(ann) == IF ann = NoAnnotation THEN <<>> ELSE ann

\* the fields of a JSON object body (key, value, key, value, ...) set in a status
RECURSIVE DecodeFields(_, _)
DecodeFields(body, status) ==
    IF Len(body) < 2 THEN status
    ELSE LET key == body[1]
             val == body[2]
             next == IF key = "state" THEN [status EXCEPT !.state = val]
                     ELSE IF key = "lastUpdated" THEN [status EXCEPT !.lastUpdated = TimeOf(val)]
                     ELSE status
         IN DecodeFields(SubSeq(body, 3, Len(body)), next)

\* unmarshalStatusAnnotation: json.Unmarshal of content into a new status
unmarshalStatusAnnotation(content) ==
    IF /\ Len(content) >= 2
       /\ content[1] = "{"
       /\ content[Len(content)] = "}"
       /\ Len(content) % 2 = 0
    THEN [err |-> FALSE,
          status |-> DecodeFields(SubSeq(content, 2, Len(content) - 1), ZeroStatus)]
    ELSE [err |-> TRUE, status |-> ZeroStatus]

\* the decoded status committed as it is
StampLastUpdated_Never(status, now) == status

\* lines 230-236: a zero LastUpdated is set to metav1.Now()
StampLastUpdated(status, now) ==
    IF status.lastUpdated = 0 THEN [status EXCEPT !.lastUpdated = now] ELSE status

\* allUpdated never reset
AllUpdatedAfter_Kept(allUpdated, annValue) == allUpdated

\* lines 219-223: allUpdated after the annotation test of one host
AllUpdatedAfter(allUpdated, annValue) ==
    IF annValue = <<>> THEN allUpdated ELSE FALSE

\* a failed status update that does not skip the host
AfterUpdateBMHStatus_NoContinue(err) == "remove"

\* lines 238-241: an UpdateBMHStatus error continues with the next host
AfterUpdateBMHStatus(err) == IF err THEN "loop" ELSE "remove"

\* a delete that leaves the annotation in the object sent
DeleteStatusAnnotation_Kept(ann) == ann

\* line 242: delete(annotations, metal3v1alpha1.StatusAnnotation)
DeleteStatusAnnotation(ann) == NoAnnotation

\* c.kc.ListBMHs(): bmhList.Items, the BMHs that exist, in name order
ListBMHs == [i \in 1..Cardinality({b \in Bmhs : bmhs[b].exists}) |->
                LET name == SortedSeq({b \in Bmhs : bmhs[b].exists})[i]
                IN [name |-> name, ann |-> bmhs[name].ann]]

\* c.kc.UpdateBMHStatus(&bmh) succeeding: the status sub-resource is committed
UpdateBMHStatus(bmh) == [bmhs EXCEPT ![bmh.name].status = bmh.status]

\* c.kc.UpdateBMH(&bmh) succeeding: the resource (its annotations) is persisted
UpdateBMH(bmh) == [bmhs EXCEPT ![bmh.name].ann = bmh.ann]

NoBmh == [name |-> 0, ann |-> NoAnnotation, status |-> ZeroStatus]

BmhLoopInit ==
    /\ bmhPc = "sleep"
    /\ bmhExists = "none"
    /\ bmhListRes = "none"
    /\ bmhSnapshot = <<>>
    /\ bmhIdx = 1
    /\ bmhAllUpdated = TRUE
    /\ bmhCur = NoBmh
    /\ bmhCalls = <<>>
    /\ bmhSync = [b \in Bmhs |-> 0]
    /\ bmhPayload = [b \in Bmhs |-> ZeroStatus]
    /\ bmhWg = 0

BmhInit ==
    /\ bmhs \in [Bmhs -> [exists : {TRUE}, ann : AnnotationTexts \cup {NoAnnotation},
                          status : {ZeroStatus}]
                         \cup {[exists |-> FALSE, ann |-> NoAnnotation, status |-> ZeroStatus]}]
    /\ BmhLoopInit

\* the BMH Synchronizer and its cluster, not running
BmhQuiet ==
    /\ bmhs = [b \in Bmhs |-> [exists |-> FALSE, ann |-> NoAnnotation, status |-> ZeroStatus]]
    /\ BmhLoopInit

\* lines 188-196: sleep, IsMetalProvisioningExists; an error continues, true returns
BMH_CheckProvisioning ==
    /\ bmhPc = "sleep"
    /\ \E err \in BOOLEAN, exists \in BOOLEAN :
          /\ err => ~exists
          /\ bmhExists' = IF err THEN "err" ELSE IF exists THEN "true" ELSE "false"
          /\ IF err THEN UNCHANGED <<bmhPc, bmhWg>>
             ELSE IF exists THEN bmhPc' = "done" /\ bmhWg' = bmhWg + 1
             ELSE bmhPc' = "list" /\ UNCHANGED bmhWg
    /\ bmhListRes' = "none"
    /\ bmhSnapshot' = <<>>
    /\ bmhIdx' = 1
    /\ bmhCalls' = <<>>
    /\ bmhSync' = [b \in Bmhs |-> IF bmhSync[b] = 0 THEN 0 ELSE 2]
    /\ UNCHANGED <<bmhs, bmhAllUpdated, bmhCur, bmhPayload>>
    /\ UNCHANGED notBmhVars

\* lines 198-202 and 213: ListBMHs; an error continues
BMH_List ==
    /\ bmhPc = "list"
    /\ \E err \in BOOLEAN :
          IF err
          THEN /\ bmhListRes' = "err"
               /\ bmhPc' = "sleep"
               /\ UNCHANGED <<bmhSnapshot, bmhAllUpdated>>
          ELSE /\ bmhListRes' = "ok"
               /\ bmhSnapshot' = ListBMHs
               /\ bmhAllUpdated' = TRUE
               /\ bmhPc' = "loop"
    /\ UNCHANGED <<bmhs, bmhExists, bmhIdx, bmhCur, bmhCalls, bmhSync, bmhPayload, bmhWg>>
    /\ UNCHANGED notBmhVars

\* lines 214-241: one item of bmhList.Items, up to and including UpdateBMHStatus
BMH_Check ==
    /\ bmhPc = "loop"
    /\ bmhIdx <= Len(bmhSnapshot)
    /\ LET item == bmhSnapshot[bmhIdx]
           content == GetAnnotation(item.ann)
           decoded == unmarshalStatusAnnotation(content)
       IN /\ bmhAllUpdated' = AllUpdatedAfter(bmhAllUpdated, content)
          /\ IF content = <<>> \/ decoded.err
             THEN /\ bmhIdx' = bmhIdx + 1
                  /\ UNCHANGED <<bmhs, bmhPc, bmhCur, bmhCalls>>
             ELSE \E now \in Times, err \in BOOLEAN :
                     LET bmh == [name |-> item.name, ann |-> item.ann,
                                 status |-> StampLastUpdated(decoded.status, now)]
                     IN /\ bmhCalls' = Append(bmhCalls,
                               [op |-> "UpdateBMHStatus", name |-> bmh.name, ann |-> bmh.ann,
                                status |-> bmh.status, decoded |-> decoded.status,
                                ok |-> ~err])
                        /\ bmhs' = IF err THEN bmhs ELSE UpdateBMHStatus(bmh)
                        /\ bmhPc' = AfterUpdateBMHStatus(err)
                        /\ bmhCur' = bmh
                        /\ bmhIdx' = IF AfterUpdateBMHStatus(err) = "loop"
                                      THEN bmhIdx + 1 ELSE bmhIdx
    /\ UNCHANGED <<bmhExists, bmhListRes, bmhSnapshot, bmhSync, bmhPayload, bmhWg>>
    /\ UNCHANGED notBmhVars

\* lines 242-246: the annotation is deleted and the BMH updated
BMH_Remove ==
    /\ bmhPc = "remove"
    /\ \E err \in BOOLEAN :
          LET bmh == [bmhCur EXCEPT !.ann = DeleteStatusAnnotation(bmhCur.ann)]
          IN /\ bmhCalls' = Append(bmhCalls,
                    [op |-> "UpdateBMH", name |-> bmh.name, ann |-> bmh.ann,
                     status |-> bmh.status, decoded |-> bmhCalls[Len(bmhCalls)].decoded,
                     ok |-> ~err])
             /\ bmhs' = IF err THEN bmhs ELSE UpdateBMH(bmh)
             /\ bmhSync' = IF err \/ ~bmhCalls[Len(bmhCalls)].ok THEN bmhSync
                            ELSE [bmhSync EXCEPT ![bmh.name] = 1]
             /\ bmhPayload' = IF err \/ ~bmhCalls[Len(bmhCalls)].ok THEN bmhPayload
                               ELSE [bmhPayload EXCEPT ![bmh.name] = bmhCalls[Len(bmhCalls)].decoded]
             /\ bmhCur' = bmh
    /\ bmhIdx' = bmhIdx + 1
    /\ bmhPc' = "loop"
    /\ UNCHANGED <<bmhExists, bmhListRes, bmhSnapshot, bmhAllUpdated, bmhWg>>
    /\ UNCHANGED notBmhVars

\* lines 204-208 and 248: updateBMHStatus returns allUpdated
BMH_EndPass ==
    /\ bmhPc = "loop"
    /\ bmhIdx > Len(bmhSnapshot)
    /\ IF bmhAllUpdated
       THEN bmhPc' = "done" /\ bmhWg' = bmhWg + 1
       ELSE bmhPc' = "sleep" /\ UNCHANGED bmhWg
    /\ UNCHANGED <<bmhs, bmhExists, bmhListRes, bmhSnapshot, bmhIdx, bmhAllUpdated,
                   bmhCur, bmhCalls, bmhSync, bmhPayload>>
    /\ UNCHANGED notBmhVars

BmhNext == BMH_CheckProvisioning \/ BMH_List \/ BMH_Check \/ BMH_Remove \/ BMH_EndPass

(***************************************************************************)
(* PostInstallConfigs                                                      *)
(***************************************************************************)
ClusterStatusInstalling == "installing"
ClusterStatusFinalizing == "finalizing"
ClusterStatusInstalled == "installed"
ClusterStatusError == "error"
ClusterStatuses == {ClusterStatusInstalling, ClusterStatusFinalizing,
                    ClusterStatusInstalled, ClusterStatusError}

\* c.ClusterID
ClusterID == "cluster-1"

\* the values of ca-bundle.crt
CaBundles == {"ca1", "ca2"}
NoCa == "none"

\* an entry of fLog: a time.Sleep(GeneralWaitTimeout) or a client call with
\* its arguments or result (val) and whether it returned without error
Event(op, ok, val) == [op |-> op, ok |-> ok, val |-> val]
SleepEvent == Event("Sleep", TRUE, <<>>)

\* a gate that any successful poll opens
GateOpen_AnyStatus(err, status) == ~err

\* a gate that the statuses after installing open
GateOpen_NotInstalling(err, status) == ~err /\ status # ClusterStatusInstalling

\* a gate that opens only after WaitAndUpdateNodesStatus has returned
GateOpen_AfterNodes(err, status) ==
    ~err /\ status = ClusterStatusFinalizing /\ nrPc = "done"

\* lines 169-177: the gate loop breaks on a poll without error whose status is
\* finalizing (cluster.Status is a required field of the model: never nil)
GateOpen(err, status) == ~err /\ status = ClusterStatusFinalizing

\* lines 306-311: some pod of the list is in phase Running
RECURSIVE HasRunningPod(_)
HasRunningPod(pods) ==
    IF pods = <<>> THEN FALSE
    ELSE IF Head(pods) = "Running" THEN TRUE
    ELSE HasRunningPod(Tail(pods))

\* an upload error that retries the upload with the bundle read before
AfterUploadIngressCa_RetryUploadOnly(err) == IF err THEN "uploadCA" ELSE "unpatch"

\* lines 286-292: where addRouterCAToClusterCA goes after UploadIngressCa: an
\* error continues the loop, which begins with GetConfigMap; success returns
AfterUploadIngressCa(err) == IF err THEN "readCA" ELSE "unpatch"

\* a return that does not signal the wait group
WgDone_Missing(wg) == wg

\* line 165: the deferred wg.Done() of PostInstallConfigs
WgDone(wg) == wg + 1

\* a report of a failed installation
CompleteArgs_Failure == <<ClusterID, "false", "installation failed">>

\* line 182: the arguments of sendCompleteInstallation
CompleteArgs == <<ClusterID, "true", "">>

FinLoopInit ==
    /\ invCa = NoCa
    /\ invCompleted = <<>>
    /\ fPc = "gate"
    /\ fCa = NoCa
    /\ fLog = <<>>
    /\ fRetries = 0
    /\ fWg = 0

FinInit ==
    /\ clusterStatus \in {ClusterStatusInstalling, ClusterStatusFinalizing}
    /\ cmData = "ca1"
    /\ consolePods = <<>>
    /\ etcdPatched = TRUE
    /\ FinLoopInit

\* the Finalizer and its inventory and cluster, not running
FinQuiet ==
    /\ clusterStatus = ClusterStatusInstalling
    /\ cmData = "ca1"
    /\ consolePods = <<>>
    /\ etcdPatched = TRUE
    /\ FinLoopInit

\* a call that does not complete its step is followed while the bound allows
MayRetry == fRetries < MaxRetries

\* lines 166-178: one iteration of the gate loop: sleep, GetCluster
FIN_Gate ==
    /\ fPc = "gate"
    /\ \E err \in BOOLEAN :
          /\ GateOpen(err, clusterStatus) \/ MayRetry
          /\ fLog' = fLog \o <<SleepEvent,
                               Event("GetCluster", ~err, IF err THEN <<>> ELSE <<clusterStatus>>)>>
          /\ IF GateOpen(err, clusterStatus)
             THEN fPc' = "readCA" /\ UNCHANGED fRetries
             ELSE fPc' = "gate" /\ fRetries' = fRetries + 1
    /\ UNCHANGED <<clusterStatus, cmData, consolePods, etcdPatched, invCa, invCompleted, fCa, fWg>>
    /\ UNCHANGED notFinVars

\* lines 277-283: addRouterCAToClusterCA reads the config map; an error continues
FIN_GetConfigMap ==
    /\ fPc = "readCA"
    /\ \E err \in BOOLEAN :
          /\ ~err \/ MayRetry
          /\ fLog' = Append(fLog, Event("GetConfigMap", ~err, IF err THEN <<>> ELSE <<cmData>>))
          /\ IF err
             THEN fRetries' = fRetries + 1 /\ UNCHANGED <<fPc, fCa>>
             ELSE fCa' = cmData /\ fPc' = "uploadCA" /\ UNCHANGED fRetries
    /\ UNCHANGED <<clusterStatus, cmData, consolePods, etcdPatched, invCa, invCompleted, fWg>>
    /\ UNCHANGED notFinVars

\* lines 285-292: the bundle read is uploaded; an error continues with a new read
FIN_UploadIngressCa ==
    /\ fPc = "uploadCA"
    /\ \E err \in BOOLEAN :
          /\ ~err \/ MayRetry
          /\ fLog' = Append(fLog, Event("UploadIngressCa", ~err, <<fCa, ClusterID>>))
          /\ IF err
             THEN fRetries' = fRetries + 1 /\ UNCHANGED invCa
             ELSE invCa' = fCa /\ UNCHANGED fRetries
          /\ fPc' = AfterUploadIngressCa(err)
    /\ UNCHANGED <<clusterStatus, cmData, consolePods, etcdPatched, invCompleted, fCa, fWg>>
    /\ UNCHANGED notFinVars

\* lines 260-270: unpatchEtcd; an error continues
FIN_UnPatchEtcd ==
    /\ fPc = "unpatch"
    /\ \E err \in BOOLEAN :
          /\ ~err \/ MayRetry
          /\ fLog' = Append(fLog, Event("UnPatchEtcd", ~err, <<>>))
          /\ IF err
             THEN fRetries' = fRetries + 1 /\ UNCHANGED <<fPc, etcdPatched>>
             ELSE etcdPatched' = FALSE /\ fPc' = "console" /\ UNCHANGED fRetries
    /\ UNCHANGED <<clusterStatus, cmData, consolePods, invCa, invCompleted, fCa, fWg>>
    /\ UNCHANGED notFinVars

\* lines 296-313: waitForConsole; an error or a list without a Running pod continues
FIN_GetConsolePods ==
    /\ fPc = "console"
    /\ \E err \in BOOLEAN :
          LET found == ~err /\ HasRunningPod(consolePods)
          IN /\ found \/ MayRetry
             /\ fLog' = Append(fLog, Event("GetPods", ~err, IF err THEN <<>> ELSE consolePods))
             /\ IF found
                THEN fPc' = "complete" /\ UNCHANGED fRetries
                ELSE fRetries' = fRetries + 1 /\ UNCHANGED fPc
    /\ UNCHANGED <<clusterStatus, cmData, consolePods, etcdPatched, invCa, invCompleted, fCa, fWg>>
    /\ UNCHANGED notFinVars

\* lines 315-325 and the deferred wg.Done() of line 165: sendCompleteInstallation(true, "")
FIN_CompleteInstallation ==
    /\ fPc = "complete"
    /\ \E err \in BOOLEAN :
          /\ ~err \/ MayRetry
          /\ fLog' = Append(fLog, Event("CompleteInstallation", ~err, CompleteArgs))
          /\ IF err
             THEN /\ fRetries' = fRetries + 1
                  /\ UNCHANGED <<fPc, invCompleted, clusterStatus, fWg>>
             ELSE /\ invCompleted' = Append(invCompleted, CompleteArgs)
                  /\ clusterStatus' = ClusterStatusInstalled
                  /\ fPc' = "done"
                  /\ fWg' = WgDone(fWg)
                  /\ UNCHANGED fRetries
    /\ UNCHANGED <<cmData, consolePods, etcdPatched, invCa, fCa>>
    /\ UNCHANGED notFinVars

\* the inventory: the installation moves on, or fails
ClusterAdvances ==
    /\ \E st \in ClusterStatuses :
          /\ \/ clusterStatus = ClusterStatusInstalling /\ st = ClusterStatusFinalizing
             \/ clusterStatus = ClusterStatusFinalizing /\ st = ClusterStatusInstalled
             \/ clusterStatus \in {ClusterStatusInstalling, ClusterStatusFinalizing}
                  /\ st = ClusterStatusError
          /\ clusterStatus' = st
    /\ UNCHANGED <<cmData, consolePods, etcdPatched, invCa, invCompleted,
                   fPc, fCa, fLog, fRetries, fWg>>
    /\ UNCHANGED notFinVars

\* the cluster: the ingress operator renews its CA
IngressCaRenewed ==
    /\ cmData = "ca1"
    /\ cmData' = "ca2"
    /\ UNCHANGED <<clusterStatus, consolePods, etcdPatched, invCa, invCompleted,
                   fPc, fCa, fLog, fRetries, fWg>>
    /\ UNCHANGED notFinVars

\* the cluster: a console pod is created, or starts running
ConsolePodChanges ==
    /\ \/ /\ Len(consolePods) < NumConsolePods
          /\ consolePods' = Append(consolePods, "Pending")
       \/ \E i \in 1..Len(consolePods) :
             /\ consolePods[i] = "Pending"
             /\ consolePods' = [consolePods EXCEPT ![i] = "Running"]
    /\ UNCHANGED <<clusterStatus, cmData, etcdPatched, invCa, invCompleted,
                   fPc, fCa, fLog, fRetries, fWg>>
    /\ UNCHANGED notFinVars

FinNext == FIN_Gate \/ FIN_GetConfigMap \/ FIN_UploadIngressCa \/ FIN_UnPatchEtcd
           \/ FIN_GetConsolePods \/ FIN_CompleteInstallation
           \/ ClusterAdvances \/ IngressCaRenewed \/ ConsolePodChanges

\* the Node Reconciler and its inventory, not running
NodeQuiet ==
    /\ hostStatus = [h \in Hosts |-> HostStatusInstalled]
    /\ nodes = {}
    /\ NodeLoopInit

(***************************************************************************)
(* Specifications: the four goroutines together, and each loop on its own  *)
(* (the other three not running)                                           *)
(***************************************************************************)
Init ==
    /\ NodeInit
    /\ CsrInit
    /\ BmhInit
    /\ FinInit

Next == NodeNext \/ CsrNext \/ BmhNext \/ FinNext

Spec == Init /\ [][Next]_vars

NodeSpecInit ==
    /\ FinQuiet
    /\ NodeInit
    /\ CsrQuiet
    /\ BmhQuiet

NodeSpec == NodeSpecInit /\ [][NodeNext]_vars

CsrSpecInit ==
    /\ FinQuiet
    /\ CsrInit
    /\ NodeQuiet
    /\ BmhQuiet

CsrSpec == CsrSpecInit /\ [][CsrNext]_vars

BmhSpecInit ==
    /\ FinQuiet
    /\ BmhInit
    /\ NodeQuiet
    /\ CsrQuiet

BmhSpec == BmhSpecInit /\ [][BmhNext]_vars

FinSpecInit ==
    /\ FinInit
    /\ NodeQuiet
    /\ CsrQuiet
    /\ BmhQuiet

FinSpec == FinSpecInit /\ [][FinNext]_vars

\* the goroutine of PostInstallConfigs keeps running: a call it can make is
\* made. A call fails while MayRetry allows, so each run sees finitely many
\* failures
FinFairSpec ==
    /\ FinSpecInit /\ [][FinNext]_vars
    /\ WF_vars(FIN_Gate) /\ WF_vars(FIN_GetConfigMap) /\ WF_vars(FIN_UploadIngressCa)
    /\ WF_vars(FIN_UnPatchEtcd) /\ WF_vars(FIN_GetConsolePods)
    /\ WF_vars(FIN_CompleteInstallation)

\* the goroutine of ApproveCsrs keeps running (a pass that has started goes
\* on), and a select for which the done case is ready again and again
\* eventually takes it: Go chooses among the ready cases uniformly at random
CsrFairSpec ==
    /\ CsrSpecInit
    /\ [][CsrNext]_vars
    /\ WF_vars(CSR_Approve)
    /\ SF_vars(CSR_SelectDone)

\* the goroutine of UpdateBMHs keeps running: its next step is eventually taken
BmhFairSpec == BmhSpecInit /\ [][BmhNext]_vars /\ WF_vars(BmhNext)

\* the four goroutines started together on a cluster whose nodes have all
\* joined, with every host installing, one CSR pending, one BareMetalHost
\* annotated, the cluster finalizing and a console pod running
ConcInit ==
    /\ hostStatus = [h \in Hosts |-> HostStatusInstalling]
    /\ nodes = Hosts
    /\ NodeLoopInit
    /\ csrs = [c \in Csrs |-> IF c = 1 THEN <<>> ELSE Absent]
    /\ CsrLoopInit
    /\ bmhs = [b \in Bmhs |->
                  IF b = 1
                  THEN [exists |-> TRUE, ann |-> AnnStateTime, status |-> ZeroStatus]
                  ELSE [exists |-> FALSE, ann |-> NoAnnotation, status |-> ZeroStatus]]
    /\ BmhLoopInit
    /\ clusterStatus = ClusterStatusFinalizing
    /\ cmData = "ca1"
    /\ consolePods = <<"Running">>
    /\ etcdPatched = TRUE
    /\ FinLoopInit

\* no call recorded in the state has returned an error
NoFailure ==
    /\ ~nrGetErr /\ ~nrListErr /\ nrFailed = {}
    /\ \A i \in 1..Len(nrHelper) : ~nrHelper[i].podsErr /\ nrHelper[i].failAt = 0
    /\ \A i \in 1..Len(csrCalls) : csrCalls[i].ok
    /\ bmhExists # "err" /\ bmhListRes # "err"
    /\ \A i \in 1..Len(bmhCalls) : bmhCalls[i].ok
    /\ fRetries = 0

\* the steps of the four goroutines, interleaved in any order, in runs whose
\* calls succeed (the runs with failing calls are those of the per-loop
\* specifications)
ConcNext ==
    \/ NR_GetHosts /\ NoFailure'
    \/ NR_ListNodes /\ NoFailure'
    \/ NR_UpdateNode /\ NoFailure'
    \/ NR_Helper /\ NoFailure'
    \/ CSR_TickerFires /\ NoFailure'
    \/ CSR_Cancel /\ NoFailure'
    \/ CSR_SelectDone /\ NoFailure'
    \/ CSR_SelectTick /\ NoFailure'
    \/ CSR_Approve /\ NoFailure'
    \/ BMH_CheckProvisioning /\ NoFailure'
    \/ BMH_List /\ NoFailure'
    \/ BMH_Check /\ NoFailure'
    \/ BMH_Remove /\ NoFailure'
    \/ BMH_EndPass /\ NoFailure'
    \/ FIN_Gate /\ NoFailure'
    \/ FIN_GetConfigMap /\ NoFailure'
    \/ FIN_UploadIngressCa /\ NoFailure'
    \/ FIN_UnPatchEtcd /\ NoFailure'
    \/ FIN_GetConsolePods /\ NoFailure'
    \/ FIN_CompleteInstallation /\ NoFailure'

ConcSpec == ConcInit /\ [][ConcNext]_vars

(***************************************************************************)
(* Claims about WaitAndUpdateNodesStatus                                   *)
(***************************************************************************)
\* the elements of a sequence
Range(s) == {s[i] : i \in 1..Len(s)}

\* the loop over nodes.Items of this iteration has run to its end
NrPassComplete ==
    /\ nrIter \in {"running", "ended"}
    /\ ~nrGetErr
    /\ ~nrListErr
    /\ \/ nrPc = "sleep"
       \/ nrPc = "update" /\ nrIdx > Len(nrListed)

\* C1: the Node Reconciler returns in an iteration iff the GetHosts result of
\* that iteration was empty, and it never returns while some inventory host is
\* still in a status that is not excluded.
C1_ReturnsOnlyWhenNoPendingHost ==
    /\ nrIter # "none" => ((nrPc = "done") <=> (nrHosts = {}))
    /\ nrPc = "done" => PendingHosts(ignoreStatuses) = {}

\* C2: after a pass with a successful host query and a successful node listing,
\* the UpdateHostInstallProgress calls of the pass are exactly one call, with
\* stage Done and the host's id, for each host that was pending at the query
\* and has the name of a listed node, and no other call.
C2_ExactlyOneDonePerMatchedHost ==
    NrPassComplete =>
        LET matched == {h \in Hosts : nrInv[h] \notin ignoreStatuses /\ h \in Range(nrListed)}
        IN /\ \A h \in matched :
                 Cardinality({i \in 1..Len(nrCalls) : nrCalls[i].id = HostID(h)}) = 1
           /\ \A i \in 1..Len(nrCalls) :
                 /\ nrCalls[i].stage = HostStageDone
                 /\ \E h \in matched : nrCalls[i].id = HostID(h)

\* hosts {1: pending, 2: installed}, nodes {1, 3}: exactly one call, for host 1
C2_Witness ==
    /\ NrPassComplete
    /\ nrInv[1] = HostStatusInstalling /\ nrInv[2] = HostStatusInstalled
    /\ nrListed = <<1, 3>>
    /\ Len(nrCalls) = 1 /\ nrCalls[1].id = HostID(1)

\* C12: a failed UpdateHostInstallProgress call affects its host only: every
\* listed node handled so far in the pass that names a pending host has had
\* its Done call, whether or not an earlier call of the pass failed and
\* whether or not a call for that host failed in an earlier pass; a pass with
\* a failed call does not end the loop, and the failed call leaves the host's
\* inventory status as it was.
C12_UpdateFailureAffectsOneHost ==
    /\ nrPc = "update" =>
          \A j \in 1..Len(nrListed) :
             (j < nrIdx /\ NodeHasHost(nrHosts, nrListed[j])) =>
                \E i \in 1..Len(nrCalls) :
                   /\ nrCalls[i].id = HostID(nrListed[j])
                   /\ nrCalls[i].stage = HostStageDone
    /\ NrPassComplete =>
          \A h \in Hosts :
             (nrInv[h] \notin ignoreStatuses /\ h \in Range(nrListed)) =>
                \E i \in 1..Len(nrCalls) : nrCalls[i].id = HostID(h)
    /\ (\E i \in 1..Len(nrCalls) : ~nrCalls[i].ok) =>
          /\ nrPc \in {"update", "helper", "sleep"}
          /\ nrIter # "returned"
    /\ \A h \in Hosts : hostStatus[h] = HostStatusInstalled => nrInv[h] = hostStatus[h] \/
          \E i \in 1..Len(nrCalls) : nrCalls[i].id = HostID(h) /\ nrCalls[i].ok

\* the call for host 1 fails, the call for host 2 is still made in the same
\* pass; the call for host 2 had failed in an earlier pass
C12_Witness ==
    /\ NrPassComplete
    /\ Len(nrCalls) = 2
    /\ nrCalls[1].id = HostID(1) /\ ~nrCalls[1].ok
    /\ nrCalls[2].id = HostID(2) /\ nrCalls[2].ok
    /\ 2 \in nrFailed

\* C13: in an iteration whose host query returned a non-empty map and whose
\* ListNodes call failed, no UpdateHostInstallProgress call is made, and the
\* loop is at the start of the next iteration, where it queries the hosts anew.
C13_ListNodesFailureSkipsIteration ==
    nrListErr =>
        /\ nrHosts # {}
        /\ nrCalls = <<>>
        /\ nrPc = "sleep"
        /\ nrIter = "ended"

\* both hosts pending, node 1 has joined, ListNodes fails
C13_Witness ==
    /\ nrListErr
    /\ nrHosts = Hosts
    /\ 1 \in nodes
    /\ nrPc = "sleep"

\* C14 as stated: every iteration that does not end the loop has invoked the
\* Configuring-Status helper with the host map of that iteration, whatever
\* the outcome of the node listing.
C14_HelperEndsEveryIteration ==
    nrIter = "ended" =>
        /\ Len(nrHelper) = 1
        /\ nrHelper[1].hosts = nrHosts

\* C14 amended: an iteration that does not end the loop and whose ListNodes
\* call succeeded ends with exactly one helper invocation, made after the loop
\* over the nodes with the host map of that iteration, whatever the outcome of
\* the per-host updates; an iteration whose ListNodes call failed ends without
\* the helper.
C14_HelperEndsIterationAfterListing ==
    /\ nrIter = "ended" =>
          IF nrListErr THEN nrHelper = <<>>
          ELSE /\ Len(nrHelper) = 1
               /\ nrHelper[1].hosts = nrHosts
               /\ nrHosts = {h \in Hosts : nrInv[h] \notin ignoreStatuses}
               /\ nrIdx > Len(nrListed)
    /\ nrIter # "ended" => nrHelper = <<>>

\* a pass in which an update failed and one succeeded ends with the helper
\* called with both hosts
C14_Witness ==
    /\ nrIter = "ended" /\ ~nrListErr
    /\ Len(nrHelper) = 1 /\ nrHelper[1].hosts = Hosts
    /\ \E i, j \in 1..Len(nrCalls) : ~nrCalls[i].ok /\ nrCalls[j].ok

\* C15: the log passed to SetConfiguringStatusForHosts is empty when GetPods
\* or the GetPodLogs call of any pod failed, and the concatenation of the logs
\* of all pods otherwise; the routine is invoked in either case, with the host
\* map of the iteration, and the loop goes on to its next iteration.
C15_McsLogsBestEffort ==
    /\ \A i \in 1..Len(nrHelper) :
          /\ nrHelper[i].logs =
                IF nrHelper[i].podsErr \/ nrHelper[i].failAt # 0 THEN <<>>
                ELSE [p \in 1..NumPods |-> p]
          /\ nrHelper[i].hosts = nrHosts
    /\ (nrIter = "ended" /\ ~nrListErr) => (Len(nrHelper) = 1 /\ nrPc = "sleep")
    /\ nrHelper # <<>> => nrPc = "sleep" /\ nrIter = "ended"

\* the log of pod 1 was read, the log of pod 2 failed: the log passed on is empty
C15_Witness ==
    /\ Len(nrHelper) = 1
    /\ nrHelper[1].failAt = NumPods /\ ~nrHelper[1].podsErr
    /\ nrHelper[1].logs = <<>>
    /\ nrHelper[1].hosts # {}
    /\ nrPc = "sleep"

\* every pod's log was read: the log passed on holds all of them
C15_WitnessAllRead ==
    /\ Len(nrHelper) = 1
    /\ nrHelper[1].logs = [p \in 1..NumPods |-> p]

(***************************************************************************)
(* Claims about ApproveCsrs                                                *)
(***************************************************************************)
\* the names of the items of a CSR list that carry no Approved condition, in order
RECURSIVE Unapproved(_)
Unapproved(items) ==
    IF items = <<>> THEN <<>>
    ELSE IF CertificateApproved \in Range(Head(items).conds)
         THEN Unapproved(Tail(items))
         ELSE <<Head(items).name>> \o Unapproved(Tail(items))

\* C10: in an approval pass ApproveCsr is called exactly once for each listed
\* CSR without an Approved condition and never for one that carries an Approved
\* condition, whatever the results of the other ApproveCsr calls of the pass.
C10_ApproveOncePerUnapprovedCsr ==
    [i \in 1..Len(csrCalls) |-> csrCalls[i].name]
        = Unapproved(SubSeq(csrSnapshot, 1, csrIdx - 1))

\* a completed pass over an approved CSR and an unapproved one whose approval failed
C10_Witness ==
    /\ csrPc = "select"
    /\ Len(csrSnapshot) = 2 /\ csrIdx = 3
    /\ CertificateApproved \in Range(csrSnapshot[1].conds)
    /\ csrCalls = <<[name |-> csrSnapshot[2].name, ok |-> FALSE]>>

\* C11: ApproveCsrs returns only by receiving from the done channel, and only
\* from the select between ticks, so that a pass that has started has handled
\* every listed CSR when the loop returns; once a cancellation signal is
\* available the loop eventually returns, and wg.Done() is called exactly once,
\* on return.
C11_ReturnsOnCancellationOnly ==
    /\ [](csrPc = "returned" => csrDone = "received" /\ csrIdx > Len(csrSnapshot))
    /\ [](csrDone = "received" => csrPc = "returned")
    /\ [](csrWg = IF csrPc = "returned" THEN 1 ELSE 0)
    /\ [][csrPc' = "returned" /\ csrPc # "returned" => csrPc = "select"]_vars
    /\ (csrDone = "sent") ~> (csrPc = "returned" /\ csrWg = 1)

\* the loop has returned after a pass over two CSRs in which an approval failed
C11_Witness ==
    /\ csrPc = "returned"
    /\ csrDone = "received"
    /\ csrWg = 1
    /\ Len(csrSnapshot) = 2 /\ csrIdx = 3
    /\ \E i \in 1..Len(csrCalls) : ~csrCalls[i].ok

(***************************************************************************)
(* Claims about UpdateBMHs                                                 *)
(***************************************************************************)
\* C5: a BMH whose annotation decoded and for which UpdateBMHStatus and
\* UpdateBMH both succeeded in one pass has no status annotation, its stored
\* status is the decoded payload (the last-updated time apart when the payload
\* had none), and no later pass issues a call for it.
C5_SyncedOnceThenNoOp ==
    /\ \A b \in Bmhs :
          bmhSync[b] # 0 =>
             /\ bmhs[b].ann = NoAnnotation
             /\ bmhs[b].status.state = bmhPayload[b].state
             /\ bmhPayload[b].lastUpdated # 0 => bmhs[b].status = bmhPayload[b]
    /\ \A i \in 1..Len(bmhCalls) : bmhSync[bmhCalls[i].name] # 2

\* a second pass has run over a BMH synchronized from {"state":"ready"}
C5_Witness ==
    \E b \in Bmhs :
       /\ bmhSync[b] = 2
       /\ bmhPayload[b] = [state |-> "ready", lastUpdated |-> 0]
       /\ bmhs[b].status.lastUpdated # 0
       /\ bmhListRes = "ok" /\ bmhIdx > Len(bmhSnapshot)
       /\ \E i \in 1..Len(bmhSnapshot) : bmhSnapshot[i].name = b

\* C6: every status passed to UpdateBMHStatus has a non-zero last-updated
\* time: a decoded payload without one is committed with the current time set,
\* a payload with one is committed as decoded.
C6_CommittedStatusIsStamped ==
    \A i \in 1..Len(bmhCalls) :
       bmhCalls[i].op = "UpdateBMHStatus" =>
          /\ bmhCalls[i].status.lastUpdated # 0
          /\ bmhCalls[i].status.state = bmhCalls[i].decoded.state
          /\ bmhCalls[i].decoded.lastUpdated = 0 => bmhCalls[i].status.lastUpdated \in Times
          /\ bmhCalls[i].decoded.lastUpdated # 0 => bmhCalls[i].status = bmhCalls[i].decoded

\* one tick committed a payload without a time and a payload with one
C6_Witness ==
    /\ Len(bmhCalls) >= 2
    /\ \E i \in 1..Len(bmhCalls) :
          bmhCalls[i].op = "UpdateBMHStatus" /\ bmhCalls[i].decoded.lastUpdated = 0
    /\ \E i \in 1..Len(bmhCalls) :
          bmhCalls[i].op = "UpdateBMHStatus" /\ bmhCalls[i].decoded.lastUpdated # 0

\* C7: UpdateBMH is called for a BMH only right after UpdateBMHStatus for the
\* same BMH succeeded in the same tick, with the annotation removed from the
\* object sent; a BMH whose annotation does not decode gets no call; and after
\* a failed UpdateBMHStatus or UpdateBMH the stored BMH still carries the
\* annotation it was listed with.
C7_RemoveOnlyAfterCommit ==
    /\ \A i \in 1..Len(bmhCalls) :
          /\ bmhCalls[i].op = "UpdateBMH" =>
                /\ i > 1
                /\ bmhCalls[i - 1].op = "UpdateBMHStatus"
                /\ bmhCalls[i - 1].name = bmhCalls[i].name
                /\ bmhCalls[i - 1].ok
                /\ bmhCalls[i].ann = NoAnnotation
          /\ ~bmhCalls[i].ok =>
                \E j \in 1..Len(bmhSnapshot) :
                   /\ bmhSnapshot[j].name = bmhCalls[i].name
                   /\ bmhSnapshot[j].ann \notin {NoAnnotation, AnnEmpty}
                   /\ bmhs[bmhCalls[i].name].ann = bmhSnapshot[j].ann
    /\ \A j \in 1..Len(bmhSnapshot) :
          unmarshalStatusAnnotation(GetAnnotation(bmhSnapshot[j].ann)).err =>
             \A i \in 1..Len(bmhCalls) : bmhCalls[i].name # bmhSnapshot[j].name

\* in one tick UpdateBMHStatus failed for one BMH and UpdateBMH for another
C7_Witness ==
    /\ Len(bmhCalls) = 3
    /\ bmhCalls[1].op = "UpdateBMHStatus" /\ ~bmhCalls[1].ok
    /\ bmhCalls[2].op = "UpdateBMHStatus" /\ bmhCalls[2].ok
    /\ bmhCalls[3].op = "UpdateBMH" /\ ~bmhCalls[3].ok
    /\ bmhs[bmhCalls[1].name].ann # NoAnnotation
    /\ bmhs[bmhCalls[3].name].ann # NoAnnotation

\* a tick of UpdateBMHs has ended (the loop sleeps again or has returned)
BmhTickEnded == bmhExists # "none" /\ bmhPc \in {"sleep", "done"}

\* C8 as stated: the loop returns at the end of a tick exactly when the presence
\* check returned true, or the pass of the tick leaves no listed BMH with a
\* status annotation.
C8_ReturnsWhenPassLeavesNoAnnotation ==
    BmhTickEnded =>
       (bmhPc = "done" <=>
           \/ bmhExists = "true"
           \/ /\ bmhListRes = "ok"
              /\ \A j \in 1..Len(bmhSnapshot) :
                    GetAnnotation(bmhs[bmhSnapshot[j].name].ann) = <<>>)

\* C8 amended: the loop returns at the end of a tick exactly when the presence
\* check returned true without error (and then nothing was listed or updated
\* in the tick), or no BMH listed in the tick carried a non-empty status
\* annotation when it was listed; an error of the presence check or of the
\* listing leaves the loop running.
C8_ReturnsWhenNoAnnotationListed ==
    BmhTickEnded =>
       /\ bmhPc = "done" <=>
              \/ bmhExists = "true"
              \/ /\ bmhListRes = "ok"
                 /\ \A j \in 1..Len(bmhSnapshot) : GetAnnotation(bmhSnapshot[j].ann) = <<>>
       /\ bmhExists = "true" => bmhListRes = "none" /\ bmhCalls = <<>>
       /\ bmhExists = "err" \/ bmhListRes = "err" => bmhPc = "sleep"

\* the loop has returned a tick after the tick in which it removed an annotation
C8_Witness ==
    /\ bmhPc = "done"
    /\ bmhExists = "false"
    /\ bmhListRes = "ok"
    /\ \E b \in Bmhs : bmhSync[b] = 2

\* the status of BMH b has just been committed
BmhCommitted(b) == bmhPc = "remove" /\ bmhCur.name = b

\* C9: a BMH whose annotation decodes and whose status commit succeeds, but
\* for which no UpdateBMH call ever succeeds, does not have its status
\* committed infinitely often.
C9_NoInfiniteReprocessing ==
    \A b \in Bmhs : [](bmhSync[b] = 0) => <>[](~BmhCommitted(b))

(***************************************************************************)
(* Claims about PostInstallConfigs                                         *)
(***************************************************************************)
\* the step of the Finalizer a client call belongs to (0: a sleep)
StepOf(op) ==
    CASE op = "GetCluster" -> 1
      [] op \in {"GetConfigMap", "UploadIngressCa"} -> 2
      [] op = "UnPatchEtcd" -> 3
      [] op = "GetPods" -> 4
      [] op = "CompleteInstallation" -> 5
      [] OTHER -> 0

\* the call e completes the step k
StepSucceeded(e, k) ==
    /\ e.ok
    /\ CASE k = 1 -> e.op = "GetCluster" /\ e.val = <<ClusterStatusFinalizing>>
         [] k = 2 -> e.op = "UploadIngressCa"
         [] k = 3 -> e.op = "UnPatchEtcd"
         [] k = 4 -> e.op = "GetPods" /\ "Running" \in Range(e.val)
         [] k = 5 -> e.op = "CompleteInstallation"
         [] OTHER -> FALSE

\* the indices of the calls of fLog that completed step k
SuccessesOf(k) == {i \in 1..Len(fLog) : StepSucceeded(fLog[i], k)}

\* C3: the calls of PostInstallConfigs are made step by step in the order
\* 1..5: a call of step N+1 is made only after a call that completed step N, no
\* call of an earlier step follows a call of a later one, and
\* CompleteInstallation is accepted at most once, as the last call of the run,
\* and exactly once in a run that has returned.
C3_StepsInOrderCompletionOnce ==
    /\ \A i \in 1..Len(fLog) :
          StepOf(fLog[i].op) >= 2 =>
             \E j \in 1..(i - 1) : StepSucceeded(fLog[j], StepOf(fLog[i].op) - 1)
    /\ \A i, j \in 1..Len(fLog) :
          i < j /\ StepOf(fLog[j].op) # 0 => StepOf(fLog[i].op) <= StepOf(fLog[j].op)
    /\ \A k \in 1..5 : \A i \in SuccessesOf(k) :
          \A j \in (i + 1)..Len(fLog) : StepOf(fLog[j].op) # k
    /\ Cardinality(SuccessesOf(5)) = Len(invCompleted)
    /\ fPc = "done" <=> Cardinality(SuccessesOf(5)) = 1
    /\ fPc # "done" => SuccessesOf(5) = {}

\* a run that has returned after calls that failed
C3_Witness ==
    /\ fPc = "done"
    /\ fRetries = MaxRetries
    /\ \E i \in 1..Len(fLog) : fLog[i].op = "UploadIngressCa" /\ ~fLog[i].ok
    /\ Len(invCompleted) = 1

\* C4: the gate loop is left at the first GetCluster poll that returns without
\* error and with status finalizing, and no GetCluster poll follows it; a poll
\* that fails or returns another status is followed by a sleep and the next
\* poll only; while no poll has observed finalizing no call of steps 2-5 is made.
C4_GateOpensOnFinalizingOnly ==
    /\ fPc = "gate" <=> SuccessesOf(1) = {}
    /\ Cardinality(SuccessesOf(1)) <= 1
    /\ \A i \in 1..Len(fLog) :
          fLog[i].op = "GetCluster" =>
             IF StepSucceeded(fLog[i], 1)
             THEN \A j \in (i + 1)..Len(fLog) : fLog[j].op \notin {"GetCluster", "Sleep"}
             ELSE i < Len(fLog) => fLog[i + 1].op = "Sleep" /\ fLog[i + 2].op = "GetCluster"
    /\ SuccessesOf(1) = {} => \A i \in 1..Len(fLog) : StepOf(fLog[i].op) <= 1

\* polls saw installing, then finalizing; the gate was left then, and the
\* cluster has since become installed
C4_Witness ==
    /\ Len(fLog) >= 4
    /\ fLog[2].op = "GetCluster" /\ fLog[2].val = <<ClusterStatusInstalling>>
    /\ fLog[4].op = "GetCluster" /\ fLog[4].val = <<ClusterStatusFinalizing>>
    /\ fPc = "readCA"
    /\ clusterStatus = ClusterStatusInstalled

\* C16: every UploadIngressCa call directly follows a successful GetConfigMap
\* call and uploads the bundle that call read, for the configured cluster; a
\* failed GetConfigMap and a failed UploadIngressCa are each followed by
\* GetConfigMap; after the first successful upload no GetConfigMap or
\* UploadIngressCa call is made, and the inventory holds the bundle uploaded.
C16_ReadAndUploadRetriedAsPair ==
    /\ \A i \in 1..Len(fLog) :
          fLog[i].op = "UploadIngressCa" =>
             /\ i > 1
             /\ fLog[i - 1].op = "GetConfigMap" /\ fLog[i - 1].ok
             /\ fLog[i].val = fLog[i - 1].val \o <<ClusterID>>
    /\ \A i \in 1..(Len(fLog) - 1) :
          (fLog[i].op \in {"GetConfigMap", "UploadIngressCa"} /\ ~fLog[i].ok) =>
             fLog[i + 1].op = "GetConfigMap"
    /\ \A i \in 1..Len(fLog) :
          (fLog[i].op = "UploadIngressCa" /\ fLog[i].ok) =>
             /\ invCa = fLog[i].val[1]
             /\ \A j \in (i + 1)..Len(fLog) :
                   fLog[j].op \notin {"GetConfigMap", "UploadIngressCa"}
    /\ invCa # NoCa <=> \E i \in 1..Len(fLog) : fLog[i].op = "UploadIngressCa" /\ fLog[i].ok

\* the upload of the first bundle failed, the config map changed, and the
\* bundle uploaded is the one read anew
C16_Witness ==
    /\ \E i \in 1..Len(fLog) :
          fLog[i].op = "UploadIngressCa" /\ ~fLog[i].ok /\ fLog[i].val[1] = "ca1"
    /\ invCa = "ca2"
    /\ fPc = "unpatch"

\* C17: between any two calls of the same external operation the Finalizer
\* has slept one polling interval, and after the call that completed a step
\* no call of that step is made.
C17_FixedIntervalBetweenAttempts ==
    /\ \A i, j \in 1..Len(fLog) :
          (i < j /\ fLog[i].op # "Sleep" /\ fLog[i].op = fLog[j].op) =>
             \E k \in (i + 1)..(j - 1) : fLog[k].op = "Sleep"
    /\ \A s \in 1..5 : \A i \in SuccessesOf(s) :
          \A j \in (i + 1)..Len(fLog) : StepOf(fLog[j].op) # s

\* C18: a run in which the cluster comes to stay in finalizing while the gate
\* is polled and a console pod comes to run ends, after any failures the run
\* sees, with the completion accepted once, PostInstallConfigs returned and
\* the wait group signalled once; the wait group is signalled at the return
\* and not before.
C18_EventuallyCompletes ==
    /\ [](fWg = IF fPc = "done" THEN 1 ELSE 0)
    /\ (/\ <>[](fPc = "gate" => clusterStatus = ClusterStatusFinalizing)
        /\ <>HasRunningPod(consolePods))
          => <>[](fPc = "done" /\ fWg = 1 /\ Len(invCompleted) = 1)

\* a run that returned after a failed GetConfigMap and a failed console poll
C18_Witness ==
    /\ fPc = "done" /\ fWg = 1
    /\ \E i \in 1..Len(fLog) : fLog[i].op = "GetConfigMap" /\ ~fLog[i].ok
    /\ \E i \in 1..Len(fLog) : fLog[i].op = "GetPods" /\ ~fLog[i].ok

\* C20: every CompleteInstallation call carries the configured cluster id,
\* success true and an empty error string, and so does every completion the
\* inventory accepted, whatever calls failed before.
C20_OnlySuccessReported ==
    /\ \A i \in 1..Len(fLog) :
          fLog[i].op = "CompleteInstallation" => fLog[i].val = <<ClusterID, "true", "">>
    /\ \A i \in 1..Len(invCompleted) : invCompleted[i] = <<ClusterID, "true", "">>

\* after a failed UnPatchEtcd and a rejected report, the report is sent again
\* with the same arguments and accepted
C20_Witness ==
    /\ Len(invCompleted) = 1
    /\ \E i \in 1..Len(fLog) : fLog[i].op = "UnPatchEtcd" /\ ~fLog[i].ok
    /\ \E i \in 1..Len(fLog) : fLog[i].op = "CompleteInstallation" /\ ~fLog[i].ok

\* C19: no step of the Finalizer waits on another loop: whatever the state of
\* the Node Reconciler, the CSR Approver and the BMH Synchronizer, the call
\* the Finalizer is at can be made and can complete its step as soon as the
\* inventory and the cluster allow; a Finalizer step changes no state of the
\* other loops, and a step of another loop changes no state of the Finalizer.
C19_FinalizerWaitsOnNoOtherLoop ==
    /\ [](/\ (fPc = "gate" /\ clusterStatus = ClusterStatusFinalizing)
                => ENABLED (FIN_Gate /\ fPc' = "readCA")
          /\ fPc = "readCA" => ENABLED (FIN_GetConfigMap /\ fPc' = "uploadCA")
          /\ fPc = "uploadCA" => ENABLED (FIN_UploadIngressCa /\ fPc' = "unpatch")
          /\ fPc = "unpatch" => ENABLED (FIN_UnPatchEtcd /\ fPc' = "console")
          /\ (fPc = "console" /\ HasRunningPod(consolePods))
                => ENABLED (FIN_GetConsolePods /\ fPc' = "complete")
          /\ fPc = "complete" => ENABLED (FIN_CompleteInstallation /\ fPc' = "done"))
    /\ [][/\ finVars' # finVars => UNCHANGED <<nodeVars, csrVars, bmhVars>>
          /\ <<nodeVars, csrVars, bmhVars>>' # <<nodeVars, csrVars, bmhVars>>
                => UNCHANGED finVars]_vars

\* the completion is reported while the Node Reconciler is in its loop with
\* hosts pending, the CSR Approver is running and a BareMetalHost carries its
\* status annotation
C19_Witness ==
    /\ Len(invCompleted) = 1 /\ fPc = "done"
    /\ nrPc \notin {"done"} /\ PendingHosts(ignoreStatuses) # {}
    /\ csrPc # "returned"
    /\ bmhPc # "done"
    /\ \E b \in Bmhs : bmhs[b].exists /\ GetAnnotation(bmhs[b].ann) # <<>>

\* the other loops have returned before the Finalizer makes its first call,
\* and the completion is reported after them
C19_WitnessLoopsFirst ==
    /\ nrPc = "done" /\ bmhPc = "done" /\ csrPc = "returned"
    /\ fLog = <<>>
    /\ ENABLED (FIN_Gate /\ fPc' = "readCA")

====
